---------------------------- MODULE Spec2Model ----------------------------
(***************************************************************************)
(* A model of the email triage agent: EmailAgent.run / check_email /       *)
(* parse_tool_args (src/src/email_agent/service.py), OllamaClient.chat     *)
(* (src/src/email_agent/clients/ollama_client.py), GmailReader.get_messages*)
(* (src/src/email_agent/clients/gmail_client.py) and send_webhook /        *)
(* send_webhook_chunked (src/discord.py).                                  *)
(*                                                                         *)
(* The program is single-threaded.  A step of the model is one network     *)
(* call together with the local code that follows it, or the entry or      *)
(* return of one of the operations above.  The outcome of a network call   *)
(* (a response, a read-timeout, a transport error, a non-2xx status) is    *)
(* chosen by the environment when the step is taken.                       *)
(*                                                                         *)
(* Python values are modelled as records [t |-> tag, v |-> payload]:       *)
(*   "str"   a plain string, v its characters                              *)
(*   "json"  a string holding JSON text, v its lexical tokens              *)
(*   "obj"   a dict, v its items (a sequence of [k, v], insertion order)   *)
(*   "list", "num", "null"  the remaining JSON values (contents unused)    *)
(***************************************************************************)
EXTENDS Integers, Sequences, FiniteSets, TLC

VARIABLES
    cfg,          \* configuration read at construction: which of chat_url, model, webhook_url is non-empty
    time_delta,   \* argument of run(), handed to get_messages: [given, secs]
    pc,           \* position of EmailAgent.run
    refs,         \* get_messages: refs returned by the list call
    ridx,         \* get_messages: index of the next ref to fetch
    messages,     \* get_messages: fetched messages; afterwards run's list of emails
    idx,          \* run: index of the email under triage
    embeds,       \* run: the accumulated notification batch
    cpc,          \* check_email: "idle", "chat1" or "chat2" (inside the 1st / 2nd chat call); chat on its own: the call's status
    conv,         \* check_email: the conversation (local `messages`)
    cembeds,      \* check_email: the cards accepted so far (local `embeds`)
    payload,      \* OllamaClient.chat: the request body built before the attempt loop
    attempt,      \* OllamaClient.chat: loop variable of `for attempt in range(2)`
    hk,           \* send_webhook_chunked: its frame (arguments, loop position, responses, status)
    hooklog,      \* history: the webhook POSTs made, in order
    chatlog,      \* history: the chat calls of the check_email in progress, each with its HTTP attempts
    returned,     \* history: per triaged email, what check_email did
    calls,        \* history: counters of the mailbox list and get calls, the tool invocations emitted, the dispatches invoked
    praw,         \* parse_tool_args called on its own: the argument
    pres,         \* parse_tool_args called on its own: the outcome
    builder,      \* a GmailQueryBuilder used on its own: its tokens and how the last method call ended
    gmsg,         \* a GmailMessage used on its own: its payload and the body text a call returned
    root          \* a Root serialised on its own: asdict(self) and what to_payload returned

vars == <<cfg, time_delta, pc, refs, ridx, messages, idx, embeds, cpc, conv,
          cembeds, payload, attempt, hk, hooklog, chatlog, returned, calls, praw, pres, builder, gmsg, root>>

runVars   == <<cfg, time_delta, pc, refs, ridx, messages, idx, embeds>>
emailVars == <<cpc, conv, cembeds, payload, attempt, chatlog, returned>>
hookVars  == <<hk, hooklog>>
parseVars == <<praw, pres>>
libVars   == <<builder, gmsg, root>>

-----------------------------------------------------------------------------
(* Bounds of the model. *)

\* Most refs the mailbox lists in one run.
MaxEmails == 2

\* Most tool invocations the model emits over one run (all responses together).
MaxToolCalls == 2

\* Longest card list handed to send_webhook_chunked on its own.
MaxCards == 23

\* Longest JSON text (in tokens) handed to parse_tool_args on its own.
MaxJsonLen == 5

\* The interpreter's recursion limit for nested JSON containers (1000 in CPython), scaled to MaxJsonLen.
RecursionLimit == 3

\* Longest value (in characters) handed to a GmailQueryBuilder method.
MaxValueLen == 3

\* Most parts of a multipart MIME container.
MaxParts == 2

\* Most calls of plain_body, html_body and body made on one GmailMessage.
MaxBodyCalls == 3

\* Most embeds of a Root serialised on its own.
MaxEmbeds == 2

-----------------------------------------------------------------------------
(* Program constants. *)

MAX_EMBEDS_PER_WEBHOOK == 10

DEFAULT_MAX_RESULTS == 50

-----------------------------------------------------------------------------
(* Plain strings: sequences of characters. *)

\* str.isspace() on one character.
IsSpace(ch) == ch = " "

RECURSIVE LStrip(_)
LStrip(s) == IF s # <<>> /\ IsSpace(Head(s)) THEN LStrip(Tail(s)) ELSE s

RECURSIVE RStrip(_)
RStrip(s) == IF s # <<>> /\ IsSpace(s[Len(s)]) THEN RStrip(SubSeq(s, 1, Len(s) - 1)) ELSE s

\* str.strip()
Strip(s) == RStrip(LStrip(s))

-----------------------------------------------------------------------------
(* Python values. *)

PyStr(chars)  == [t |-> "str",  v |-> chars]
PyJson(toks)  == [t |-> "json", v |-> toks]
PyObj(items)  == [t |-> "obj",  v |-> items]
PyNone        == [t |-> "null", v |-> <<>>]
PyNum         == [t |-> "num",  v |-> <<>>]
PyList        == [t |-> "list", v |-> <<>>]
EmptyDict     == PyObj(<<>>)

KeySummary == <<"s", "u", "m", "m", "a", "r", "y">>

RECURSIVE DictGet(_, _, _)
\* dict.get(key, default): the value of the last item stored under key.
DictGet(items, key, default) ==
    IF items = <<>> THEN default
    ELSE IF items[Len(items)].k = key THEN items[Len(items)].v
    ELSE DictGet(SubSeq(items, 1, Len(items) - 1), key, default)

\* str(value), for the values a decoded argument can hold.
ToStr(val) ==
    CASE val.t = "str"  -> val.v
      [] val.t = "null" -> <<"N", "o", "n", "e">>
      [] val.t = "num"  -> <<"1">>
      [] val.t = "list" -> <<"[", "]">>
      [] val.t = "obj"  -> <<"{", "}">>
      [] OTHER          -> val.v

-----------------------------------------------------------------------------
(* json.loads on a token sequence.  The string literals the lexer knows: *)

IsStrLit(tok) == tok \in {"'summary'", "' b '", "'  '", "''"}

LitText(tok) ==
    CASE tok = "'summary'" -> KeySummary
      [] tok = "' b '"     -> <<" ", "b", " ">>
      [] tok = "'  '"      -> <<" ", " ">>
      [] OTHER             -> <<>>

\* A parse result: st is "ok", "decode_error" (json.JSONDecodeError) or
\* "recursion_error" (RecursionError); pos is the index after the value.
POk(val, pos) == [st |-> "ok", val |-> val, pos |-> pos]
PErr(pos)     == [st |-> "decode_error", val |-> PyNone, pos |-> pos]
PRec(pos)     == [st |-> "recursion_error", val |-> PyNone, pos |-> pos]

RECURSIVE ParseValue(_, _, _)
RECURSIVE ParseElements(_, _, _)
RECURSIVE ParseMembers(_, _, _, _)

\* The elements of an array after "[" or ",": value, then "," or "]".
ParseElements(toks, i, depth) ==
    LET r == ParseValue(toks, i, depth)
    IN  IF r.st # "ok" THEN r
        ELSE IF r.pos > Len(toks) THEN PErr(r.pos)
        ELSE IF toks[r.pos] = "]" THEN POk(PyList, r.pos + 1)
        ELSE IF toks[r.pos] = "," THEN ParseElements(toks, r.pos + 1, depth)
        ELSE PErr(r.pos)

\* The members of an object after "{" or ",": key, ":", value, then "," or "}".
ParseMembers(toks, i, depth, items) ==
    IF i + 1 > Len(toks) \/ ~IsStrLit(toks[i]) \/ toks[i + 1] # ":" THEN PErr(i)
    ELSE LET r == ParseValue(toks, i + 2, depth)
         IN  IF r.st # "ok" THEN r
             ELSE IF r.pos > Len(toks) THEN PErr(r.pos)
             ELSE LET more == Append(items, [k |-> LitText(toks[i]), v |-> r.val])
                  IN  IF toks[r.pos] = "}" THEN POk(PyObj(more), r.pos + 1)
                      ELSE IF toks[r.pos] = "," THEN ParseMembers(toks, r.pos + 1, depth, more)
                      ELSE PErr(r.pos)

\* One JSON value starting at toks[i]; entering a container deeper than the
\* recursion limit raises RecursionError before the rest of the text is read.
ParseValue(toks, i, depth) ==
    IF i > Len(toks) THEN PErr(i)
    ELSE LET tok == toks[i]
         IN  CASE IsStrLit(tok) -> POk(PyStr(LitText(tok)), i + 1)
               [] tok = "null"  -> POk(PyNone, i + 1)
               [] tok = "1"     -> POk(PyNum, i + 1)
               [] tok = "["     ->
                    IF depth > RecursionLimit THEN PRec(i)
                    ELSE IF i + 1 <= Len(toks) /\ toks[i + 1] = "]" THEN POk(PyList, i + 2)
                    ELSE ParseElements(toks, i + 1, depth + 1)
               [] tok = "{"     ->
                    IF depth > RecursionLimit THEN PRec(i)
                    ELSE IF i + 1 <= Len(toks) /\ toks[i + 1] = "}" THEN POk(EmptyDict, i + 2)
                    ELSE ParseMembers(toks, i + 1, depth + 1, <<>>)
               [] OTHER         -> PErr(i)

\* json.loads(text): one value and nothing after it.
json_loads(toks) ==
    LET r == ParseValue(toks, 1, 1)
    IN  IF r.st = "ok" /\ r.pos <= Len(toks) THEN PErr(r.pos) ELSE r

\* A call's outcome: st is "ok" (val returned) or the name of the exception raised.
Returned(val) == [st |-> "ok", val |-> val]
Raised(exc)   == [st |-> exc, val |-> PyNone]

\* EmailAgent.parse_tool_args
parse_tool_args(raw_args) ==
    IF raw_args.t = "obj" THEN Returned(raw_args)
    ELSE IF raw_args.t = "json"
         THEN LET r == json_loads(raw_args.v)
              IN  CASE r.st = "ok"           -> Returned(IF r.val.t = "obj" THEN r.val ELSE EmptyDict)
                    [] r.st = "decode_error" -> Returned(EmptyDict)
                    [] OTHER                 -> Raised("RecursionError")
    ELSE Returned(EmptyDict)

-----------------------------------------------------------------------------
(* Emails, cards and conversation messages. *)

\* A message resource as fetched: id is 0 when the resource carries no id;
\* recv is what received_at() yields: unknown (None) or a time.
Message(id, known, at) == [id |-> id, subject |-> "subject", recv |-> [known |-> known, at |-> at]]

\* datetime.now(timezone.utc), fixed for the run.
Now == 1

\* The windows passed to run(): negative, zero, positive.
Windows == {-1, 0}

\* build_email_embed (make_notifier's closure calls it with the email's id and subject).
build_email_embed(message_id, subject, summary) ==
    [title |-> subject, url |-> <<"https://mail.google.com/mail/u/0/#inbox/", message_id>>,
     description |-> summary, color |-> 15258703]

ConvMsg(role, content, tool_calls, tool_name) ==
    [role |-> role, content |-> content, tool_calls |-> tool_calls, tool_name |-> tool_name]

SystemMsg    == ConvMsg("system", <<"system_prompt">>, <<>>, "")
UserMsg(m)   == ConvMsg("user", <<"prompt", m.id, m.subject>>, <<>>, "")
ToolMsg(fn)  == ConvMsg("tool", <<"Notification queued.">>, <<>>, fn)
\* resp.get("message", {}) of a response that carries no message.
NoMessage    == ConvMsg("", <<>>, <<>>, "")
AssistantMsg(tool_calls) == ConvMsg("assistant", <<>>, tool_calls, "")

ToolCall(name, arguments) == [name |-> name, arguments |-> arguments]

SummaryItem(val) == [k |-> KeySummary, v |-> val]

\* JSON text nested one level deeper than the recursion limit allows.
DeepJson == PyJson([i \in 1..(RecursionLimit + 1) |-> "["])

\* The tool invocations the model may emit.
ToolCalls ==
    { ToolCall("notify", PyObj(<<SummaryItem(PyStr(<<"a">>))>>)),
      ToolCall("notify", PyJson(<<"{", "'summary'", ":", "' b '", "}">>)),
      ToolCall("notify", PyJson(<<"{", "'summary'", ":", "'  '", "}">>)),
      ToolCall("notify", PyJson(<<"{", "'summary'", ":", "''", "}">>)),
      ToolCall("notify", PyJson(<<"x">>)),
      ToolCall("notify", PyObj(<<SummaryItem(PyNone)>>)),
      ToolCall("notify", DeepJson),
      ToolCall("other",  PyObj(<<SummaryItem(PyStr(<<"a">>))>>)) }

SeqsUpTo(S, n) == UNION {[1..k -> S] : k \in 0..n}

\* The assistant messages a successful first chat call may return, with at most n tool invocations.
Responses(n) == {NoMessage} \cup {AssistantMsg(tcs) : tcs \in SeqsUpTo(ToolCalls, n)}

-----------------------------------------------------------------------------
(* EmailAgent.check_email, lines 84-100: the loop over the tool invocations. *)

\* A plausible slip: the summary is tested before it is trimmed.
AcceptedSummaryUntrimmed(args) == ToStr(DictGet(args.v, KeySummary, PyStr(<<>>)))

\* str(args.get("summary", "")).strip()
AcceptedSummary(args) == Strip(ToStr(DictGet(args.v, KeySummary, PyStr(<<>>))))

LoopState(st, cards, msgs) == [st |-> st, embeds |-> cards, msgs |-> msgs]

\* A plausible slip: a later notify replaces the cards queued before it.
AppendCardKeepLast(cards, card) == <<card>>

\* embeds.append(card)
AppendCard(cards, card) == Append(cards, card)

RECURSIVE ToolLoop(_, _, _, _)
\* Processes tool_calls[i..]; acc holds the cards and tool-result messages so far.
\* st is "ok", or the exception parse_tool_args raised.
ToolLoop(tool_calls, i, email, acc) ==
    IF i > Len(tool_calls) THEN acc
    ELSE LET tc   == tool_calls[i]
             args == parse_tool_args(tc.arguments)
         IN  IF args.st # "ok" THEN LoopState(args.st, acc.embeds, acc.msgs)
             ELSE IF tc.name = "notify" /\ AcceptedSummary(args.val) # <<>>
                  THEN ToolLoop(tool_calls, i + 1, email,
                           LoopState("ok",
                               AppendCard(acc.embeds,
                                   build_email_embed(email.id, email.subject, AcceptedSummary(args.val))),
                               Append(acc.msgs, ToolMsg(tc.name))))
                  ELSE ToolLoop(tool_calls, i + 1, email, acc)

-----------------------------------------------------------------------------
(* OllamaClient.chat *)

\* A plausible slip: only the endpoint address is checked.
ChatConfigOkUrlOnly(c) == c.chat_url

\* lines 42-45: both configuration values must be non-empty.
ChatConfigOk(c) == c.chat_url /\ c.model

\* lines 47-58: the request body.
ChatPayload(conversation) == [model |-> "model", messages |-> conversation, stream |-> FALSE]

\* A plausible slip: every timeout is retried, also a connect timeout.
RetryOnAnyTimeout(outcome, att) == outcome \in {"ReadTimeout", "ConnectTimeout"} /\ att = 0

\* A plausible slip: a read-timeout is raised at once, as any other failure.
RetryNever(outcome, att) == FALSE

\* lines 70-74: only a read-timeout of the first attempt is retried.
RetryOn(outcome, att) == outcome = "ReadTimeout" /\ att = 0

\* What a failed HTTP attempt can end in.
Failures == {"ReadTimeout", "ConnectTimeout", "HTTPError"}

-----------------------------------------------------------------------------
(* The initial states. *)

NoCalls == [list |-> 0, get |-> 0, tcs |-> 0, dispatch |-> 0]

HookFrame(st, cards, url, content, chunk_size, start, responses) ==
    [st |-> st, embeds |-> cards, url |-> url, content |-> content,
     chunk_size |-> chunk_size, start |-> start, responses |-> responses]

HookIdle == HookFrame("idle", <<>>, FALSE, "None", MAX_EMBEDS_PER_WEBHOOK, 0, <<>>)

EmailIdle ==
    /\ cpc = "idle"
    /\ conv = <<>>
    /\ cembeds = <<>>
    /\ payload = ChatPayload(<<>>)
    /\ attempt = 0
    /\ chatlog = <<>>
    /\ returned = <<>>

ParseIdle ==
    /\ praw = PyNone
    /\ pres = [st |-> "idle", val |-> PyNone]

\* A builder: st is "new" (no method called yet), "ok" (the last call returned)
\* or the name of the exception the last call raised; "idle" when unused.
\* method and value are the call just made.
Builder(tokens, st) == [tokens |-> tokens, st |-> st, method |-> "", value |-> <<>>]

\* The found dict before the walk: no key; "" stands for a key that is
\* absent, which is what found.get(key, "") gives.
NothingFound == [mime_type \in {"text/plain", "text/html"} |-> ""]

\* self._text_parts_cache: None, or the found dict of the traversal.
NoCache == [set |-> FALSE, found |-> NothingFound]
Cache(found) == [set |-> TRUE, found |-> found]

\* A GmailMessage on the part tree self._data["payload"]: st is the last
\* method called and text what it returned; walks counts the traversals of
\* the tree, left the calls still to be made.
GmailMessage(tree, st, left) ==
    [payload |-> tree, st |-> st, text |-> "", cache |-> NoCache, walks |-> 0, left |-> left]

LibIdle ==
    /\ builder = Builder(<<>>, "idle")
    /\ gmsg = GmailMessage(PyNone, "idle", 0)
    /\ root = [obj |-> PyNone, st |-> "idle", payload |-> PyNone]

\* What the list call may return: up to MaxEmails refs, each without id (0)
\* or with one; the refs that have an id are numbered 1, 2, ... in order.
RefLists ==
    UNION {{r \in [1..n -> 0..n] :
               \A i \in 1..n : r[i] \in {0, 1 + Cardinality({j \in 1..(i - 1) : r[j] # 0})}}
           : n \in 0..MaxEmails}

\* What the get call for message_id may return: the resource, with or without its id.
Resources(message_id) == {Message(message_id, TRUE, Now), Message(0, TRUE, Now)}

TimeDelta(given, secs) == [given |-> given, secs |-> secs]

Init ==
    /\ cfg \in [chat_url : BOOLEAN, model : BOOLEAN, webhook_url : BOOLEAN]
    /\ time_delta \in {TimeDelta(FALSE, 0)} \cup {TimeDelta(TRUE, s) : s \in Windows}
    /\ pc = "start"
    /\ refs = <<>>
    /\ ridx = 1
    /\ messages = <<>>
    /\ idx = 1
    /\ embeds = <<>>
    /\ EmailIdle
    /\ hk = HookIdle
    /\ hooklog = <<>>
    /\ calls = NoCalls
    /\ ParseIdle
    /\ LibIdle

-----------------------------------------------------------------------------
(* GmailReader.get_messages, reached from run() through get_recent_messages. *)

Min(a, b) == IF a < b THEN a ELSE b

Count(field) == [calls EXCEPT ![field] = @ + 1]

\* _list_message_refs: the list call, at most max_results refs.
ListRefs ==
    /\ pc = "start"
    /\ \/ /\ refs' \in {r \in RefLists : Len(r) <= DEFAULT_MAX_RESULTS}
          /\ pc' = "get"
          /\ calls' = Count("list")
       \/ /\ pc' = "raised_fetch"
          /\ calls' = Count("list")
          /\ UNCHANGED refs
    /\ UNCHANGED <<cfg, time_delta, ridx, messages, idx, embeds>>
    /\ UNCHANGED <<emailVars, hookVars, parseVars, libVars>>

\* lines 352-355, a ref without id: no call is made for it.
SkipRef ==
    /\ pc = "get"
    /\ ridx <= Len(refs)
    /\ refs[ridx] = 0
    /\ ridx' = ridx + 1
    /\ UNCHANGED <<cfg, time_delta, pc, refs, messages, idx, embeds, calls>>
    /\ UNCHANGED <<emailVars, hookVars, parseVars, libVars>>

\* lines 352-355, a ref with an id: get_message, one get call.
GetMessage ==
    /\ pc = "get"
    /\ ridx <= Len(refs)
    /\ refs[ridx] # 0
    /\ \/ /\ \E m \in Resources(refs[ridx]) : messages' = Append(messages, m)
          /\ ridx' = ridx + 1
          /\ calls' = Count("get")
          /\ UNCHANGED pc
       \/ /\ pc' = "raised_fetch"
          /\ calls' = Count("get")
          /\ UNCHANGED <<messages, ridx>>
    /\ UNCHANGED <<cfg, time_delta, refs, idx, embeds>>
    /\ UNCHANGED <<emailVars, hookVars, parseVars, libVars>>

\* A plausible slip: a message received exactly at the cutoff is left out.
InWindowStrict(m, cutoff) == m.recv.known /\ m.recv.at > cutoff

\* line 366
InWindow(m, cutoff) == m.recv.known /\ m.recv.at >= cutoff

RECURSIVE FilterSeq(_, _)
FilterSeq(ms, cutoff) ==
    IF ms = <<>> THEN <<>>
    ELSE (IF InWindow(Head(ms), cutoff) THEN <<Head(ms)>> ELSE <<>>) \o FilterSeq(Tail(ms), cutoff)

\* lines 357-368: after the fetch loop, the window is checked and applied;
\* get_messages returns or raises, its argument and locals are gone.
FilterWindow ==
    /\ pc = "get"
    /\ ridx > Len(refs)
    /\ IF ~time_delta.given
         THEN pc' = "triage" /\ UNCHANGED messages
         ELSE IF time_delta.secs < 0
              THEN pc' = "raised_window" /\ UNCHANGED messages
              ELSE pc' = "triage" /\ messages' = FilterSeq(messages, Now - time_delta.secs)
    /\ refs' = <<>>
    /\ ridx' = 1
    /\ time_delta' = TimeDelta(FALSE, 0)
    /\ UNCHANGED <<cfg, idx, embeds, calls>>
    /\ UNCHANGED <<emailVars, hookVars, parseVars, libVars>>

-----------------------------------------------------------------------------
(* EmailAgent.run, lines 119-123: the triage loop around check_email. *)

\* A plausible slip: a failing email discards the cards collected so far.
RunAfterRaiseDropsBatch(batch) == <<>>

\* lines 122-123: the exception is logged; the batch is left as it is.
RunAfterRaise(batch) == batch

\* A plausible slip: the cards of an email are put in front of the batch.
RunAfterReturnPrepends(batch, cards) == cards \o batch

\* line 121: embeds.extend(...)
RunAfterReturn(batch, cards) == batch \o cards

\* A plausible slip: the id is not checked.
HasIdUnchecked(m) == TRUE

\* line 69: `if not message_id`
HasId(m) == m.id # 0

NewCall(log) == Append(log, <<>>)
LogAttempt(log, pl, outcome) ==
    [log EXCEPT ![Len(log)] = Append(@, [payload |-> pl, outcome |-> outcome])]

\* A plausible slip: the cards check_email held when it raised reach the batch.
RunCollectsPartial(batch, st, cards) == RunAfterReturn(batch, cards)

\* lines 120-123: the batch after check_email ended; cards is the list
\* check_email held, which reaches run only through `return embeds`.
RunCollects(batch, st, cards) ==
    IF st = "ok" THEN RunAfterReturn(batch, cards) ELSE RunAfterRaise(batch)

\* line 104 or an exception: what check_email hands to its caller.
Handed(st, cards) == IF st = "ok" THEN cards ELSE <<>>

\* check_email is left holding the list cards: it returned them (st = "ok") or
\* raised st into run's try/except; its locals are gone and the loop moves to
\* the next email.
EmailEnds(st, cards, log) ==
    /\ embeds' = RunCollects(embeds, st, cards)
    /\ idx' = idx + 1
    /\ returned' = Append(returned, [id |-> messages[idx].id, st |-> st, cards |-> Handed(st, cards),
                                    held |-> Len(cards), chats |-> Len(log)])
    /\ chatlog' = <<>>
    /\ cpc' = "idle"
    /\ conv' = <<>>
    /\ cembeds' = <<>>
    /\ payload' = ChatPayload(<<>>)
    /\ attempt' = 0

\* check_email stays inside a chat call.
EmailStays == UNCHANGED <<embeds, idx, returned>>

\* check_email lines 68-71: an email without id is skipped.
CheckEmailNoId ==
    /\ pc = "triage"
    /\ cpc = "idle"
    /\ idx <= Len(messages)
    /\ ~HasId(messages[idx])
    /\ EmailEnds("ok", <<>>, <<>>)
    /\ UNCHANGED <<cfg, time_delta, pc, refs, ridx, messages, calls>>
    /\ UNCHANGED <<hookVars, parseVars, libVars>>

\* check_email lines 73-80 and chat lines 42-58: the conversation is built and
\* the first chat call is entered; it raises when the configuration is missing.
CheckEmailStart ==
    /\ pc = "triage"
    /\ cpc = "idle"
    /\ idx <= Len(messages)
    /\ HasId(messages[idx])
    /\ LET c0 == <<SystemMsg, UserMsg(messages[idx])>>
       IN  IF ChatConfigOk(cfg)
           THEN /\ cpc' = "chat1"
                /\ conv' = c0
                /\ cembeds' = <<>>
                /\ payload' = ChatPayload(c0)
                /\ attempt' = 0
                /\ chatlog' = NewCall(<<>>)
                /\ EmailStays
           ELSE EmailEnds("ValueError", <<>>, NewCall(<<>>))
    /\ UNCHANGED <<cfg, time_delta, pc, refs, ridx, messages, calls>>
    /\ UNCHANGED <<hookVars, parseVars, libVars>>

\* chat lines 61-75: an HTTP attempt fails; a read-timeout of the first
\* attempt is retried with the same payload, anything else is raised.
ChatFails ==
    /\ pc = "triage"
    /\ cpc \in {"chat1", "chat2"}
    /\ \E kind \in Failures :
          LET log == LogAttempt(chatlog, payload, kind)
          IN  IF RetryOn(kind, attempt)
              THEN /\ attempt' = attempt + 1
                   /\ chatlog' = log
                   /\ UNCHANGED <<cpc, conv, cembeds, payload>>
                   /\ EmailStays
              ELSE EmailEnds(kind, cembeds, log)
    /\ UNCHANGED <<cfg, time_delta, pc, refs, ridx, messages, calls>>
    /\ UNCHANGED <<hookVars, parseVars, libVars>>

\* A plausible slip: the response message is appended only when it proposes a
\* tool invocation.
ExtendedWhenToolCalls(conversation, msg, tool_msgs) ==
    IF msg.tool_calls = <<>> THEN conversation ELSE Append(conversation, msg) \o tool_msgs

\* line 82 and lines 94-100: messages.append(assistant_msg), then one
\* messages.append({"role": "tool", ...}) per card, on the one list.
Extended(conversation, msg, tool_msgs) == Append(conversation, msg) \o tool_msgs

\* A plausible slip: the second chat call is made only when a tool result
\* was appended.
SecondCallWhenToolResult(tool_msgs) == tool_msgs # <<>>

\* line 102: resp2 = self.ollama_chat(messages) follows the loop under no
\* condition.
SecondCall(tool_msgs) == TRUE

\* The first chat call returns a response; check_email lines 81-102: the
\* assistant message is appended, the tool invocations are processed and the
\* second chat call is entered.
ChatReturns1 ==
    /\ pc = "triage"
    /\ cpc = "chat1"
    /\ \E msg \in Responses(MaxToolCalls - calls.tcs) :
          LET log  == LogAttempt(chatlog, payload, "ok")
              loop == ToolLoop(msg.tool_calls, 1, messages[idx], LoopState("ok", cembeds, <<>>))
              c2   == Extended(conv, msg, loop.msgs)
          IN  /\ calls' = [calls EXCEPT !.tcs = @ + Len(msg.tool_calls)]
              /\ IF loop.st # "ok"
                 THEN EmailEnds("RecursionError", loop.embeds, log)
                 ELSE IF ~SecondCall(loop.msgs)
                 THEN EmailEnds("ok", loop.embeds, log)
                 ELSE /\ cpc' = "chat2"
                      /\ conv' = c2
                      /\ cembeds' = loop.embeds
                      /\ payload' = ChatPayload(c2)
                      /\ attempt' = 0
                      /\ chatlog' = NewCall(log)
                      /\ EmailStays
    /\ UNCHANGED <<cfg, time_delta, pc, refs, ridx, messages>>
    /\ UNCHANGED <<hookVars, parseVars, libVars>>

\* The second chat call returns; check_email lines 103-104 return the cards.
ChatReturns2 ==
    /\ pc = "triage"
    /\ cpc = "chat2"
    /\ EmailEnds("ok", cembeds, LogAttempt(chatlog, payload, "ok"))
    /\ UNCHANGED <<cfg, time_delta, pc, refs, ridx, messages, calls>>
    /\ UNCHANGED <<hookVars, parseVars, libVars>>

-----------------------------------------------------------------------------
(* EmailAgent.run, lines 125-137: the dispatch of the batch. *)

\* A plausible slip: the dispatch is attempted also for an empty batch.
ShouldDispatchAlways(batch) == TRUE

\* line 125: `if not embeds: return`
ShouldDispatch(batch) == batch # <<>>

RunFinish ==
    /\ pc = "triage"
    /\ cpc = "idle"
    /\ idx > Len(messages)
    /\ IF ShouldDispatch(embeds)
       THEN /\ pc' = "dispatch"
            /\ hk' = HookFrame("called", embeds, cfg.webhook_url, "line", MAX_EMBEDS_PER_WEBHOOK, 0, <<>>)
            /\ calls' = Count("dispatch")
       ELSE /\ pc' = "done"
            /\ UNCHANGED <<hk, calls>>
    /\ UNCHANGED <<cfg, time_delta, refs, ridx, messages, idx, embeds, hooklog>>
    /\ UNCHANGED <<emailVars, parseVars, libVars>>

\* A plausible slip: the dispatch failure is re-raised to the caller.
AfterDispatchReraises(st) == IF st = "raised" THEN "raised_dispatch" ELSE "done"

\* lines 129-137: the responses are reported, or the exception is caught and logged.
AfterDispatch(st) == "done"

RunDispatchEnd ==
    /\ pc = "dispatch"
    /\ hk.st \in {"returned", "raised"}
    /\ pc' = AfterDispatch(hk.st)
    /\ UNCHANGED <<cfg, time_delta, refs, ridx, messages, idx, embeds, calls>>
    /\ UNCHANGED <<emailVars, hookVars, parseVars, libVars>>

-----------------------------------------------------------------------------
(* send_webhook_chunked and send_webhook (src/discord.py). *)

\* Root(content, embeds).to_payload(): _drop_none omits a None content and an
\* empty embeds list; keys holds the top-level fields that are transmitted.
to_payload(content, chunk) ==
    [keys    |-> {k \in {"content", "embeds"} :
                     /\ (k = "content" => content # "None")
                     /\ (k = "embeds" => chunk # <<>>)},
     content |-> content,
     embeds  |-> chunk]

\* A plausible slip: every chunk carries the content line.
ChunkContentEvery(content, start) == content

\* line 193
ChunkContent(content, start) == IF start = 0 THEN content ELSE "None"

\* A plausible slip: the slice ends one card too far.
ChunkOfInclusive(cards, start, chunk_size) ==
    SubSeq(cards, start + 1, Min(start + chunk_size + 1, Len(cards)))

\* line 192: embeds[start:start + chunk_size]
ChunkOf(cards, start, chunk_size) ==
    SubSeq(cards, start + 1, Min(start + chunk_size, Len(cards)))

\* A plausible slip: a failed chunk is skipped and the loop goes on.
AfterChunkRaisesContinues(frame) == [frame EXCEPT !.start = @ + frame.chunk_size]

\* lines 191-194: nothing catches what send_webhook raises; the loop is left.
AfterChunkRaises(frame) == [frame EXCEPT !.st = "raised"]

\* lines 187-190: the chunk size is checked, the loop starts.
ChunkedEnter ==
    /\ hk.st = "called"
    /\ hk' = [hk EXCEPT !.st = IF hk.chunk_size <= 0 THEN "raised" ELSE "running"]
    /\ UNCHANGED <<runVars, emailVars, parseVars, libVars, hooklog, calls>>

\* lines 191-194 and send_webhook: one chunk is sent, or send_webhook raises.
SendWebhook ==
    /\ hk.st = "running"
    /\ hk.start < Len(hk.embeds)
    /\ LET chunk   == ChunkOf(hk.embeds, hk.start, hk.chunk_size)
           content == ChunkContent(hk.content, hk.start)
       IN  IF ~hk.url \/ Len(chunk) > MAX_EMBEDS_PER_WEBHOOK
           THEN /\ hk' = [hk EXCEPT !.st = "raised"]
                /\ UNCHANGED hooklog
           ELSE \/ /\ hooklog' = Append(hooklog, [payload |-> to_payload(content, chunk), status |-> "204"])
                   /\ hk' = [hk EXCEPT !.responses = Append(@, "204"), !.start = @ + hk.chunk_size]
                \/ /\ \E kind \in {"HTTPError", "ConnectionError"} :
                         hooklog' = Append(hooklog, [payload |-> to_payload(content, chunk), status |-> kind])
                   /\ hk' = AfterChunkRaises(hk)
    /\ UNCHANGED <<runVars, emailVars, parseVars, libVars, calls>>

\* line 195: the loop is over, the responses are returned.
ChunkedReturn ==
    /\ hk.st = "running"
    /\ hk.start >= Len(hk.embeds)
    /\ hk' = [hk EXCEPT !.st = "returned"]
    /\ UNCHANGED <<runVars, emailVars, parseVars, libVars, hooklog, calls>>

-----------------------------------------------------------------------------
(* The run of the agent. *)

Next ==
    \/ ListRefs
    \/ SkipRef
    \/ GetMessage
    \/ FilterWindow
    \/ CheckEmailNoId
    \/ CheckEmailStart
    \/ ChatFails
    \/ ChatReturns1
    \/ ChatReturns2
    \/ RunFinish
    \/ ChunkedEnter
    \/ SendWebhook
    \/ ChunkedReturn
    \/ RunDispatchEnd

Spec == Init /\ [][Next]_vars

\* The program is one thread that keeps running, and each of its network calls
\* carries a timeout: a step that can be taken is eventually taken.
FairSpec == Spec /\ WF_vars(Next)

-----------------------------------------------------------------------------
(* send_webhook_chunked called on its own, with any card list, chunk size,  *)
(* content line and webhook URL.                                            *)

\* k cards, told apart by their url.
Cards(k) == [i \in 1..k |-> build_email_embed(i, "subject", <<"a">>)]

ChunkSizes == {-1, 0, 1, 3, MAX_EMBEDS_PER_WEBHOOK, MAX_EMBEDS_PER_WEBHOOK + 1}

InitChunk ==
    /\ cfg = [chat_url |-> TRUE, model |-> TRUE, webhook_url |-> TRUE]
    /\ time_delta = TimeDelta(FALSE, 0)
    /\ pc = "direct"
    /\ refs = <<>>
    /\ ridx = 1
    /\ messages = <<>>
    /\ idx = 1
    /\ embeds = <<>>
    /\ EmailIdle
    /\ \E k \in 0..MaxCards, url \in BOOLEAN, content \in {"line", "None"}, chunk_size \in ChunkSizes :
          hk = HookFrame("called", Cards(k), url, content, chunk_size, 0, <<>>)
    /\ hooklog = <<>>
    /\ calls = NoCalls
    /\ ParseIdle
    /\ LibIdle

NextChunk ==
    \/ ChunkedEnter
    \/ SendWebhook
    \/ ChunkedReturn

SpecChunk == InitChunk /\ [][NextChunk]_vars

-----------------------------------------------------------------------------
(* OllamaClient.chat called on its own, with any configuration and a        *)
(* conversation as check_email builds them.  cpc is the call's status:      *)
(* "called", "running" (in the attempt loop), "returned" or "raised";       *)
(* chatlog keeps the attempts of the call.                                  *)

Conversations ==
    LET first == {<<SystemMsg, UserMsg(Message(i, TRUE, Now))>> : i \in 1..MaxEmails}
    IN  first \cup {Append(c, msg) : c \in first, msg \in Responses(1)}

InitChat ==
    /\ cfg \in [chat_url : BOOLEAN, model : BOOLEAN, webhook_url : {TRUE}]
    /\ time_delta = TimeDelta(FALSE, 0)
    /\ pc = "direct"
    /\ refs = <<>>
    /\ ridx = 1
    /\ messages = <<>>
    /\ idx = 1
    /\ embeds = <<>>
    /\ cpc = "called"
    /\ conv \in Conversations
    /\ cembeds = <<>>
    /\ payload = ChatPayload(<<>>)
    /\ attempt = 0
    /\ chatlog = <<>>
    /\ returned = <<>>
    /\ hk = HookIdle
    /\ hooklog = <<>>
    /\ calls = NoCalls
    /\ ParseIdle
    /\ LibIdle

\* chat lines 42-58: the configuration is checked, the request body is built.
ChatEnter ==
    /\ pc = "direct"
    /\ cpc = "called"
    /\ chatlog' = NewCall(chatlog)
    /\ IF ChatConfigOk(cfg)
       THEN cpc' = "running" /\ payload' = ChatPayload(conv) /\ attempt' = 0
       ELSE cpc' = "raised" /\ UNCHANGED <<payload, attempt>>
    /\ UNCHANGED <<runVars, hookVars, parseVars, libVars, calls, conv, cembeds, returned>>

\* chat lines 61-75: one HTTP attempt; its response is returned, a
\* read-timeout of the first attempt is retried, any other failure is raised.
ChatAttempt ==
    /\ pc = "direct"
    /\ cpc = "running"
    /\ \E outcome \in {"ok"} \cup Failures :
          /\ chatlog' = LogAttempt(chatlog, payload, outcome)
          /\ IF outcome = "ok" THEN cpc' = "returned" /\ UNCHANGED attempt
             ELSE IF RetryOn(outcome, attempt) THEN attempt' = attempt + 1 /\ UNCHANGED cpc
             ELSE cpc' = "raised" /\ UNCHANGED attempt
    /\ UNCHANGED <<runVars, hookVars, parseVars, libVars, calls, conv, cembeds, payload, returned>>

NextChat ==
    \/ ChatEnter
    \/ ChatAttempt

SpecChat == InitChat /\ [][NextChat]_vars

-----------------------------------------------------------------------------
(* parse_tool_args called on its own, with any argument.                    *)

JsonTokens == {"{", "}", "[", "]", ":", ",", "'summary'", "' b '"}

\* The arguments: every JSON text of at most MaxJsonLen tokens, the deep
\* nesting, and values that are not strings.
ParseInputs ==
    {PyJson(toks) : toks \in SeqsUpTo(JsonTokens, MaxJsonLen)}
        \cup {DeepJson, PyNone, PyNum, PyList, EmptyDict, PyObj(<<SummaryItem(PyStr(<<"a">>))>>)}

InitParse ==
    /\ cfg = [chat_url |-> TRUE, model |-> TRUE, webhook_url |-> TRUE]
    /\ time_delta = TimeDelta(FALSE, 0)
    /\ pc = "direct"
    /\ refs = <<>>
    /\ ridx = 1
    /\ messages = <<>>
    /\ idx = 1
    /\ embeds = <<>>
    /\ EmailIdle
    /\ hk = HookIdle
    /\ hooklog = <<>>
    /\ calls = NoCalls
    /\ praw \in ParseInputs
    /\ pres = [st |-> "idle", val |-> PyNone]
    /\ LibIdle

ParseCall ==
    /\ pres.st = "idle"
    /\ pres' = parse_tool_args(praw)
    /\ UNCHANGED <<runVars, emailVars, hookVars, calls, praw, libVars>>

NextParse == ParseCall

SpecParse == InitParse /\ [][NextParse]_vars

-----------------------------------------------------------------------------
(* GmailQueryBuilder used on its own: one method call on a builder.         *)

QChars == {"a", " ", "\"", "-"}

\* The string values handed to the methods.
Values == SeqsUpTo(QChars, MaxValueLen)

\* A datetime.date handed to before() or after().
PyDate == [t |-> "date", v |-> <<>>]

RECURSIVE Replace(_, _, _)
\* str.replace with a one-character pattern
Replace(s, old, new) ==
    IF s = <<>> THEN <<>>
    ELSE (IF Head(s) = old THEN new ELSE <<Head(s)>>) \o Replace(Tail(s), old, new)

\* any(ch.isspace() for ch in text)
HasSpace(s) == \E i \in 1..Len(s) : IsSpace(s[i])

\* '"' in text
HasQuote(s) == \E i \in 1..Len(s) : s[i] = "\""

\* GmailQueryBuilder._quote
_quote(value) ==
    LET text == Strip(value)
    IN  IF text = <<>> THEN Raised("ValueError")
        ELSE IF HasSpace(text) \/ HasQuote(text)
             THEN Returned(<<"\"">> \o Replace(text, "\"", <<"\\", "\"">>) \o <<"\"">>)
             ELSE Returned(text)

\* GmailQueryBuilder._date_value
_date_value(value) ==
    IF value.t = "date" THEN <<"2024", "/", "01", "/", "02">>
    ELSE Replace(Strip(value.v), "-", <<"/">>)

\* A method of the shape  self._add(f"<prefix>{self._quote(value)}")
AddQuoted(prefix, value) ==
    LET q == _quote(value)
    IN  IF q.st = "ok" THEN Returned(prefix \o q.val) ELSE q

\* GmailQueryBuilder.text: the token handed to _add, or the exception raised before it
text(value) == AddQuoted(<<>>, value)

\* GmailQueryBuilder.phrase
phrase(value) == Returned(<<"\"">> \o Replace(Strip(value), "\"", <<"\\", "\"">>) \o <<"\"">>)

\* GmailQueryBuilder.before / after
date_predicate(prefix, value) == Returned(<<prefix>> \o _date_value(value))

\* GmailQueryBuilder.include
include(raw_expression) == Returned(Strip(raw_expression))

\* GmailQueryBuilder.exclude
exclude(raw_expression) ==
    LET expr == Strip(raw_expression)
    IN  IF expr = <<>> THEN Raised("ValueError")
        ELSE Returned(IF Head(expr) = "-" THEN expr ELSE <<"-">> \o expr)

RECURSIVE JoinOr(_)
\* " OR ".join(values)
JoinOr(values) ==
    IF values = <<>> THEN <<>>
    ELSE IF Len(values) = 1 THEN values[1]
    ELSE values[1] \o <<" OR ">> \o JoinOr(Tail(values))

RECURSIVE StripAll(_)
\* [str(x).strip() for x in expressions if str(x).strip()]
StripAll(expressions) ==
    IF expressions = <<>> THEN <<>>
    ELSE (IF Strip(Head(expressions)) = <<>> THEN <<>> ELSE <<Strip(Head(expressions))>>)
            \o StripAll(Tail(expressions))

\* GmailQueryBuilder.any_of
any_of(expressions) ==
    LET values == StripAll(expressions)
    IN  IF values = <<>> THEN Raised("ValueError")
        ELSE Returned(<<"(">> \o JoinOr(values) \o <<")">>)

\* The builder after a method call: _add appends the token and the call
\* returns, or the exception leaves the tokens as they were.
Called(method, value, out) ==
    builder' = [tokens |-> IF out.st = "ok" THEN Append(builder.tokens, out.val)
                           ELSE builder.tokens,
                st     |-> out.st,
                method |-> method,
                value  |-> value]

BuilderRest == UNCHANGED <<runVars, emailVars, hookVars, calls, parseVars, gmsg, root>>

QText ==
    /\ builder.st = "new"
    /\ \E value \in Values : Called("text", value, text(value))
    /\ BuilderRest

QPhrase ==
    /\ builder.st = "new"
    /\ \E value \in Values : Called("phrase", value, phrase(value))
    /\ BuilderRest

\* The prefixes of the methods from_, subject, label, newer_than and larger.
Prefixes == {"from:", "subject:", "label:", "newer_than:", "larger:"}

\* GmailQueryBuilder.from_ / to / cc / bcc / subject / label / in_ / has /
\* filename / is_ / category / older_than / newer_than / older / newer /
\* larger / smaller / deliveredto / list_
QPrefixed ==
    /\ builder.st = "new"
    /\ \E prefix \in Prefixes, value \in Values :
          Called(prefix, value, AddQuoted(<<prefix>>, value))
    /\ BuilderRest

QDate ==
    /\ builder.st = "new"
    /\ \E prefix \in {"before:", "after:"}, value \in {PyStr(s) : s \in Values} \cup {PyDate} :
          Called(prefix, value, date_predicate(prefix, value))
    /\ BuilderRest

QInclude ==
    /\ builder.st = "new"
    /\ \E raw_expression \in Values :
          Called("include", raw_expression, include(raw_expression))
    /\ BuilderRest

QExclude ==
    /\ builder.st = "new"
    /\ \E raw_expression \in Values :
          Called("exclude", raw_expression, exclude(raw_expression))
    /\ BuilderRest

\* The operands of any_of: the values of at most one character.
Operands == SeqsUpTo(QChars, 1)

QAnyOf ==
    /\ builder.st = "new"
    /\ \E expressions \in SeqsUpTo(Operands, 2) :
          Called("any_of", expressions, any_of(expressions))
    /\ BuilderRest

\* A builder that already holds no token or one.
InitQuery ==
    /\ cfg = [chat_url |-> TRUE, model |-> TRUE, webhook_url |-> TRUE]
    /\ time_delta = TimeDelta(FALSE, 0)
    /\ pc = "direct"
    /\ refs = <<>>
    /\ ridx = 1
    /\ messages = <<>>
    /\ idx = 1
    /\ embeds = <<>>
    /\ EmailIdle
    /\ hk = HookIdle
    /\ hooklog = <<>>
    /\ calls = NoCalls
    /\ ParseIdle
    /\ \E tokens \in {<<>>, << <<"a">> >>} : builder = Builder(tokens, "new")
    /\ gmsg = GmailMessage(PyNone, "idle", 0)
    /\ root = [obj |-> PyNone, st |-> "idle", payload |-> PyNone]

NextQuery ==
    \/ QText
    \/ QPhrase
    \/ QPrefixed
    \/ QDate
    \/ QInclude
    \/ QExclude
    \/ QAnyOf

SpecQuery == InitQuery /\ [][NextQuery]_vars

-----------------------------------------------------------------------------
(* GmailMessage.plain_body / html_body / body: one call on a part tree.      *)

\* A MIME part: part["mimeType"] (lower case), part["body"]["data"] ("" when
\* there is none) and part["parts"].
Part(mimeType, data, parts) == [mimeType |-> mimeType, data |-> data, parts |-> parts]

\* GmailMessage._decode_base64url, on the base64url texts of "x" and "y"
_decode_base64url(data) ==
    CASE data = ""   -> ""
      [] data = "eA" -> "x"
      [] data = "eQ" -> "y"

\* mime_type.startswith("text/"), on the MIME types of the parts
IsTextType(mime_type) == mime_type \in {"text/plain", "text/html"}

RECURSIVE walk(_, _)
RECURSIVE WalkChildren(_, _)
\* for child in part.get("parts", []) or []: walk(child)
WalkChildren(parts, found) ==
    IF parts = <<>> THEN found
    ELSE WalkChildren(Tail(parts), walk(Head(parts), found))

\* walk in _extract_text_parts: the found dict after the walk of part
walk(part, found) ==
    WalkChildren(part.parts,
                 IF part.data # "" /\ IsTextType(part.mimeType)
                 THEN [found EXCEPT ![part.mimeType] = _decode_base64url(part.data)]
                 ELSE found)

\* A plausible slip: the cache is tested for truth, so an empty found dict
\* is not taken as a cached result.
CacheHitWhenNonEmpty(cache) == cache.set /\ cache.found # NothingFound

\* line 207: self._text_parts_cache is not None
CacheHit(cache) == cache.set

\* GmailMessage._extract_text_parts: the message after the call, its cache
\* holding the dict the call returns.
_extract_text_parts(g) ==
    IF CacheHit(g.cache) THEN g
    ELSE [g EXCEPT !.cache = Cache(walk(g.payload, NothingFound)), !.walks = @ + 1]

\* GmailMessage.plain_body
plain_body(g) == _extract_text_parts(g).cache.found["text/plain"]

\* GmailMessage.html_body, called after plain_body in body()
html_body(g) == _extract_text_parts(g).cache.found["text/html"]

\* GmailMessage.snippet
snippet == "snippet"

\* GmailMessage.body
body(g, prefer_html, fallback_to_snippet) ==
    LET plain == plain_body(g)
        html  == html_body(_extract_text_parts(g))
    IN  IF prefer_html /\ html # "" THEN html
        ELSE IF plain # "" THEN plain
        ELSE IF html # "" THEN html
        ELSE IF fallback_to_snippet THEN snippet
        ELSE ""

\* The text parts: text/plain with no data or one of two, and a text/html one.
Leaves ==
    {Part("text/plain", data, <<>>) : data \in {"", "eA", "eQ"}}
        \cup {Part("text/html", "eQ", <<>>)}

\* The nested multipart containers, of at most MaxParts text parts.
Containers == {Part("multipart/alternative", "", parts) : parts \in SeqsUpTo(Leaves, MaxParts)}

\* The payloads: none ({}), a single text part, or a multipart message of at
\* most MaxParts parts, each a text part or a nested container.
Payloads ==
    {Part("", "", <<>>)} \cup Leaves
        \cup {Part("multipart/mixed", "", parts) : parts \in SeqsUpTo(Leaves \cup Containers, MaxParts)}

InitBody ==
    /\ cfg = [chat_url |-> TRUE, model |-> TRUE, webhook_url |-> TRUE]
    /\ time_delta = TimeDelta(FALSE, 0)
    /\ pc = "direct"
    /\ refs = <<>>
    /\ ridx = 1
    /\ messages = <<>>
    /\ idx = 1
    /\ embeds = <<>>
    /\ EmailIdle
    /\ hk = HookIdle
    /\ hooklog = <<>>
    /\ calls = NoCalls
    /\ ParseIdle
    /\ builder = Builder(<<>>, "idle")
    /\ \E tree \in Payloads : gmsg = GmailMessage(tree, "new", 1)
    /\ root = [obj |-> PyNone, st |-> "idle", payload |-> PyNone]

GmsgRest == UNCHANGED <<runVars, emailVars, hookVars, calls, parseVars, builder, root>>

PlainBody ==
    /\ gmsg.left > 0
    /\ gmsg' = [_extract_text_parts(gmsg) EXCEPT
                    !.st = "plain_body", !.text = plain_body(gmsg), !.left = @ - 1]
    /\ GmsgRest

HtmlBody ==
    /\ gmsg.left > 0
    /\ gmsg' = [_extract_text_parts(gmsg) EXCEPT
                    !.st = "html_body", !.text = html_body(gmsg), !.left = @ - 1]
    /\ GmsgRest

\* body(): plain_body() and then html_body() are called.
Body ==
    /\ gmsg.left > 0
    /\ \E prefer_html \in BOOLEAN, fallback_to_snippet \in BOOLEAN :
          gmsg' = [_extract_text_parts(_extract_text_parts(gmsg)) EXCEPT
                      !.st = "body", !.text = body(gmsg, prefer_html, fallback_to_snippet),
                      !.left = @ - 1]
    /\ GmsgRest

NextBody ==
    \/ PlainBody
    \/ HtmlBody
    \/ Body

SpecBody == InitBody /\ [][NextBody]_vars

-----------------------------------------------------------------------------
(* GmailMessage.plain_body / html_body / body: any sequence of calls on one *)
(* message.                                                                  *)

\* The payloads: none ({}), a single text part, or a multipart message of at
\* most MaxParts text parts.
FlatPayloads ==
    {Part("", "", <<>>)} \cup Leaves
        \cup {Part("multipart/mixed", "", parts) : parts \in SeqsUpTo(Leaves, MaxParts)}

InitCache ==
    /\ cfg = [chat_url |-> TRUE, model |-> TRUE, webhook_url |-> TRUE]
    /\ time_delta = TimeDelta(FALSE, 0)
    /\ pc = "direct"
    /\ refs = <<>>
    /\ ridx = 1
    /\ messages = <<>>
    /\ idx = 1
    /\ embeds = <<>>
    /\ EmailIdle
    /\ hk = HookIdle
    /\ hooklog = <<>>
    /\ calls = NoCalls
    /\ ParseIdle
    /\ builder = Builder(<<>>, "idle")
    /\ \E tree \in FlatPayloads : gmsg = GmailMessage(tree, "new", MaxBodyCalls)
    /\ root = [obj |-> PyNone, st |-> "idle", payload |-> PyNone]

SpecCache == InitCache /\ [][NextBody]_vars

-----------------------------------------------------------------------------
(* Root.to_payload called on its own.                                       *)

Item(k, v)     == [k |-> k, v |-> v]
PyListOf(elems) == [t |-> "list", v |-> elems]
PyFalse        == [t |-> "bool", v |-> <<>>]

RECURSIVE _drop_none(_)
RECURSIVE DropItems(_)
RECURSIVE DropElements(_)
\* { key: _drop_none(item) for key, item in value.items()
\*   if item is not None and item != [] and item != {} }
DropItems(items) ==
    IF items = <<>> THEN <<>>
    ELSE (IF Head(items).v \in {PyNone, PyList, EmptyDict} THEN <<>>
          ELSE <<Item(Head(items).k, _drop_none(Head(items).v))>>)
            \o DropItems(Tail(items))

\* [_drop_none(item) for item in value if item is not None]
DropElements(elems) ==
    IF elems = <<>> THEN <<>>
    ELSE (IF Head(elems) = PyNone THEN <<>> ELSE <<_drop_none(Head(elems))>>)
            \o DropElements(Tail(elems))

\* _drop_none
_drop_none(value) ==
    CASE value.t = "obj"  -> PyObj(DropItems(value.v))
      [] value.t = "list" -> PyListOf(DropElements(value.v))
      [] OTHER            -> value

\* asdict of an Author, a Field, an Embed and a Root: every field of the
\* dataclass, the ones not given holding their default.
AsdictAuthor(name) ==
    PyObj(<<Item("name", name), Item("url", PyNone), Item("icon_url", PyNone)>>)

AsdictField(name) ==
    PyObj(<<Item("name", name), Item("value", PyNone), Item("inline", PyFalse)>>)

AsdictEmbed(title, fields, author) ==
    PyObj(<<Item("title", title), Item("description", PyNone), Item("url", PyNone),
            Item("color", PyNone), Item("fields", PyListOf(fields)), Item("author", author),
            Item("footer", PyNone), Item("image", PyNone), Item("thumbnail", PyNone)>>)

AsdictRoot(content, embeds_) ==
    PyObj(<<Item("content", content), Item("embeds", PyListOf(embeds_)),
            Item("username", PyNone), Item("avatar_url", PyNone),
            Item("attachments", PyListOf(<<>>))>>)

\* The embeds: with or without a title, with no field or one, and with no
\* author, an Author() holding nothing, or an author with a name.
EmbedDicts ==
    {AsdictEmbed(title, fields, author) :
        title \in {PyNone, PyStr(<<"t">>)},
        fields \in {<<>>, <<AsdictField(PyStr(<<"n">>))>>},
        author \in {PyNone, AsdictAuthor(PyNone), AsdictAuthor(PyStr(<<"a">>))}}

\* The roots: with or without a content line, with at most MaxEmbeds embeds.
RootDicts ==
    {AsdictRoot(content, embeds_) :
        content \in {PyNone, PyStr(<<"c">>)}, embeds_ \in SeqsUpTo(EmbedDicts, MaxEmbeds)}

InitPayload ==
    /\ cfg = [chat_url |-> TRUE, model |-> TRUE, webhook_url |-> TRUE]
    /\ time_delta = TimeDelta(FALSE, 0)
    /\ pc = "direct"
    /\ refs = <<>>
    /\ ridx = 1
    /\ messages = <<>>
    /\ idx = 1
    /\ embeds = <<>>
    /\ EmailIdle
    /\ hk = HookIdle
    /\ hooklog = <<>>
    /\ calls = NoCalls
    /\ ParseIdle
    /\ builder = Builder(<<>>, "idle")
    /\ gmsg = GmailMessage(PyNone, "idle", 0)
    /\ \E obj \in RootDicts : root = [obj |-> obj, st |-> "new", payload |-> PyNone]

\* Root.to_payload
ToPayload ==
    /\ root.st = "new"
    /\ root' = [root EXCEPT !.st = "returned", !.payload = _drop_none(root.obj)]
    /\ UNCHANGED <<runVars, emailVars, hookVars, calls, parseVars, builder, gmsg>>

NextPayload == ToPayload

SpecPayload == InitPayload /\ [][NextPayload]_vars

-----------------------------------------------------------------------------
(* GmailReader.get_messages on its own, from the end of its fetch loop: the  *)
(* messages fetched have any receipt time, the window is any.               *)

\* What received_at() yields for a fetched message: None, or a time before,
\* at or after the cutoffs of the windows.
ReceivedAt == {[known |-> FALSE, at |-> 0]} \cup {[known |-> TRUE, at |-> t] : t \in -1..1}

\* The messages list after the fetch loop over n refs with ids 1..n.
Fetched(n) == {[i \in 1..n |-> Message(i, r[i].known, r[i].at)] : r \in [1..n -> ReceivedAt]}

InitFetch ==
    /\ cfg = [chat_url |-> TRUE, model |-> TRUE, webhook_url |-> TRUE]
    /\ time_delta \in {TimeDelta(FALSE, 0)} \cup {TimeDelta(TRUE, s) : s \in -1..2}
    /\ pc = "get"
    /\ \E n \in 0..MaxEmails :
          /\ refs = [i \in 1..n |-> i]
          /\ ridx = n + 1
          /\ messages \in Fetched(n)
          /\ calls = [NoCalls EXCEPT !.list = 1, !.get = n]
    /\ idx = 1
    /\ embeds = <<>>
    /\ EmailIdle
    /\ hk = HookIdle
    /\ hooklog = <<>>
    /\ ParseIdle
    /\ LibIdle

NextFetch == FilterWindow

SpecFetch == InitFetch /\ [][NextFetch]_vars

-----------------------------------------------------------------------------
(* Properties. *)

RECURSIVE CardsOfReturned(_)
\* The cards of the emails whose check_email returned, in triage order.
CardsOfReturned(rs) ==
    IF rs = <<>> THEN <<>>
    ELSE CardsOfReturned(SubSeq(rs, 1, Len(rs) - 1))
             \o (IF rs[Len(rs)].st = "ok" THEN rs[Len(rs)].cards ELSE <<>>)

\* C1: whichever emails make check_email raise, the run triages every fetched
\* email, and the batch - during triage and when it is handed to the dispatch -
\* is exactly the cards of the emails whose triage returned, unaltered and in
\* order.
C1_RaisingEmailsAreIsolated ==
    /\ embeds = CardsOfReturned(returned)
    /\ \A i \in 1..Len(returned) : returned[i].id = messages[i].id
    /\ pc \in {"dispatch", "done"} => Len(returned) = Len(messages)
    /\ pc = "dispatch" => hk.embeds = CardsOfReturned(returned)

\* An email that produced a card is followed by one whose triage raised, and
\* the batch reaches the dispatch.
C1_Witness ==
    /\ pc = "dispatch"
    /\ Len(returned) = 2
    /\ returned[1].st = "ok" /\ returned[1].cards # <<>>
    /\ returned[2].st # "ok"
    /\ hk.embeds = returned[1].cards

\* The HTTP attempts of the chat call, when chat is called on its own.
Attempts == IF chatlog = <<>> THEN <<>> ELSE chatlog[1]

\* C2: a chat call makes at most two HTTP attempts; the second is made exactly
\* when the first ended in a read-timeout, and it sends the request the first
\* sent; a response ends the call with a return; a failure other than a
\* read-timeout of the first attempt (a second read-timeout, a connect
\* timeout, a transport error, a non-2xx status) is the call's last attempt
\* and the call raises.
C2_RetryOnlyOnFirstReadTimeout ==
    pc = "direct" /\ cpc \in {"called", "running", "returned", "raised"} =>
        LET n == Len(Attempts)
        IN  /\ n <= 2
            /\ Len(chatlog) <= 1
            /\ \A a \in 1..n : Attempts[a].payload = ChatPayload(conv)
            /\ n = 2 => Attempts[1].outcome = "ReadTimeout" /\ Attempts[2].payload = Attempts[1].payload
            /\ n >= 1 /\ Attempts[1].outcome = "ReadTimeout" =>
                  IF n = 1 THEN cpc = "running" ELSE cpc \in {"returned", "raised"}
            /\ \A a \in 1..n :
                  /\ Attempts[a].outcome = "ok" => a = n /\ cpc = "returned"
                  /\ Attempts[a].outcome # "ok" /\ ~(a = 1 /\ Attempts[a].outcome = "ReadTimeout")
                        => a = n /\ cpc = "raised"
            /\ cpc = "returned" => n >= 1 /\ Attempts[n].outcome = "ok"
            /\ cpc = "raised" /\ ChatConfigOk(cfg) => n >= 1 /\ Attempts[n].outcome \in Failures

\* The first attempt timed out reading, the identical request was sent once
\* more, timed out again, and the call raised.
C2_Witness ==
    /\ pc = "direct"
    /\ cpc = "raised"
    /\ Len(Attempts) = 2
    /\ Attempts[1].outcome = "ReadTimeout"
    /\ Attempts[2].outcome = "ReadTimeout"
    /\ Attempts[2].payload = Attempts[1].payload

CeilDiv(k, n) == (k + n - 1) \div n

\* C3: when send_webhook_chunked with chunk_size = 10 returns (every call
\* succeeded), it has made ceil(k/10) webhook calls for its k cards; the j-th
\* call carries the j-th group of ten cards (the last one the remainder), so
\* never more than 10; the content line is in the first payload and in no other.
C3_ChunksOfTen ==
    hk.st = "returned" /\ hk.chunk_size = 10 =>
        LET k == Len(hk.embeds)
        IN  /\ Len(hooklog) = CeilDiv(k, 10)
            /\ \A j \in 1..Len(hooklog) :
                  LET sent == hooklog[j].payload
                  IN  /\ hooklog[j].status = "204"
                      /\ Len(sent.embeds) <= 10
                      /\ Len(sent.embeds) = (IF j < Len(hooklog) THEN 10 ELSE k - 10 * (j - 1))
                      /\ \A n \in 1..Len(sent.embeds) : sent.embeds[n] = hk.embeds[10 * (j - 1) + n]
                      /\ "embeds" \in sent.keys
                      /\ "content" \in sent.keys <=> (j = 1 /\ hk.content # "None")
                      /\ "content" \in sent.keys => sent.content = hk.content

\* 23 cards and a content line were sent in three calls of 10, 10 and 3 cards.
C3_Witness ==
    /\ hk.st = "returned"
    /\ hk.chunk_size = 10
    /\ hk.content = "line"
    /\ Len(hk.embeds) = 23
    /\ Len(hooklog) = 3
    /\ Len(hooklog[1].payload.embeds) = 10
    /\ Len(hooklog[2].payload.embeds) = 10
    /\ Len(hooklog[3].payload.embeds) = 3
    /\ "content" \in hooklog[1].payload.keys
    /\ "content" \notin hooklog[2].payload.keys
    /\ "content" \notin hooklog[3].payload.keys

\* C4: when get_messages raises the invalid-window error for a negative
\* time window, no mailbox list call and no get-message call has been made.
C4_NegativeWindowRaisesBeforeFetch ==
    pc = "raised_window" => calls.list = 0 /\ calls.get = 0

\* C5: check_email on an email without message id returns an empty card list
\* and calls the model not even once; no chat call is ever in progress for
\* such an email.
C5_NoIdNoModelCall ==
    /\ \A i \in 1..Len(returned) :
          returned[i].id = 0 =>
              returned[i].st = "ok" /\ returned[i].cards = <<>> /\ returned[i].chats = 0
    /\ cpc \in {"chat1", "chat2"} => messages[idx].id # 0

\* An email without id was triaged while the model was configured, and an
\* email with an id went through both chat calls.
C5_Witness ==
    /\ ChatConfigOk(cfg)
    /\ Len(returned) = 2
    /\ returned[1].id = 0 /\ returned[1].st = "ok" /\ returned[1].chats = 0
    /\ returned[2].id # 0 /\ returned[2].chats = 2

\* The tool invocations of the assistant message of the conversation.
Proposed == conv[3].tool_calls

\* The summary an invocation's arguments decode to, as text.
DecodedSummary(tc) == ToStr(DictGet(parse_tool_args(tc.arguments).val.v, KeySummary, PyStr(<<>>)))

\* Some character of s is not whitespace.
NonBlank(s) == \E n \in 1..Len(s) : s[n] # " "

Qualifies(tc) == tc.name = "notify" /\ NonBlank(DecodedSummary(tc))

\* C6: once the loop over the tool invocations of the first response is done,
\* check_email holds one card per invocation that is named notify and whose
\* decoded summary has a non-whitespace character, and none for any other
\* invocation: a summary that is absent, empty or whitespace-only, arguments
\* that decode to an empty mapping, or another tool name give no card.
C6_CardIffNotifyWithSummary ==
    cpc = "chat2" =>
        /\ Len(cembeds) = Cardinality({j \in 1..Len(Proposed) : Qualifies(Proposed[j])})
        /\ (\A j \in 1..Len(Proposed) : ~Qualifies(Proposed[j])) => cembeds = <<>>

\* The first response proposed a notify with a whitespace-only summary and a
\* notify with a summary that needs trimming: exactly one card was queued.
C6_Witness ==
    /\ cpc = "chat2"
    /\ Len(Proposed) = 2
    /\ Proposed[1].name = "notify" /\ DecodedSummary(Proposed[1]) = <<" ", " ">>
    /\ Proposed[2].name = "notify" /\ DecodedSummary(Proposed[2]) = <<" ", "b", " ">>
    /\ Len(cembeds) = 1

\* The invocations that are accepted, in the order the model emitted them.
AcceptedCalls(tcs) == SelectSeq(tcs, Qualifies)

\* C7: when check_email returns, its cards are, in the order of emission, one
\* card per accepted notify invocation of the first response - each linking
\* the email's message id and describing that invocation's trimmed summary -
\* so two accepted invocations give two cards for the same message id.
C7_CardsInEmissionOrder ==
    [][ cpc = "chat2" /\ Len(returned') = Len(returned) + 1 /\ returned'[Len(returned')].st = "ok" =>
            LET cards    == returned'[Len(returned')].cards
                accepted == AcceptedCalls(Proposed)
            IN  /\ Len(cards) = Len(accepted)
                /\ \A j \in 1..Len(cards) :
                      /\ cards[j].url = <<"https://mail.google.com/mail/u/0/#inbox/", messages[idx].id>>
                      /\ cards[j].description = Strip(DecodedSummary(accepted[j])) ]_vars

\* check_email returned two cards for one message id: the first for the
\* summary "b", the second for the summary "a".
C7_Witness ==
    \E i \in 1..Len(returned) :
        /\ returned[i].st = "ok"
        /\ Len(returned[i].cards) = 2
        /\ returned[i].cards[1].url = returned[i].cards[2].url
        /\ returned[i].cards[1].description = <<"b">>
        /\ returned[i].cards[2].description = <<"a">>

\* C8: parse_tool_args returns for every argument - it never raises - and
\* what it returns is a mapping: the empty one for text that is not valid JSON
\* or is JSON other than an object.
C8_ParseToolArgsIsTotal ==
    /\ pres.st \in {"idle", "ok"}
    /\ pres.st = "ok" => pres.val.t = "obj"
    /\ pres.st = "ok" /\ praw.t = "json" =>
          LET r == json_loads(praw.v)
          IN  r.st # "ok" \/ r.val.t # "obj" => pres.val = EmptyDict

\* C9: the dispatch is invoked at most once in a run; when it is invoked, every
\* fetched email has been triaged and the batch it is given is the run's
\* batch, which holds at least one card; a webhook call is made only within
\* that dispatch, so a run with zero cards makes none.
C9_DispatchOnceAfterTriage ==
    /\ calls.dispatch <= 1
    /\ calls.dispatch = 1 <=> hk.st # "idle"
    /\ hk.st # "idle" =>
          /\ pc \in {"dispatch", "done"}
          /\ cpc = "idle"
          /\ Len(returned) = Len(messages)
          /\ embeds # <<>>
          /\ hk.embeds = embeds
    /\ hooklog # <<>> => calls.dispatch = 1
    /\ embeds = <<>> => hooklog = <<>>

\* Two emails were triaged, the second gave the only card, and the run ended
\* after one dispatch that made one webhook call.
C9_Witness ==
    /\ pc = "done"
    /\ Len(returned) = 2
    /\ returned[1].cards = <<>>
    /\ Len(embeds) = 1
    /\ calls.dispatch = 1
    /\ Len(hooklog) = 1
    /\ hooklog[1].status = "204"

\* C10: once get_messages has returned, the run goes on to its end: whatever
\* check_email raises and whatever the dispatch raises (no webhook URL, a
\* transport error, a non-2xx status), run() returns and raises nothing.
C10_RunCompletesAfterFetch ==
    (pc = "triage") ~> (pc = "done")

\* The webhook answered the dispatch with a non-2xx status, send_webhook_chunked
\* raised, and the run ended normally.
C10_Witness ==
    /\ pc = "done"
    /\ hk.st = "raised"
    /\ Len(hooklog) = 1
    /\ hooklog[1].status = "HTTPError"

\* C11: in send_webhook_chunked a failed webhook call is the last call made:
\* the call raises at once, the chunks before the failed one were sent (each
\* once, in order, answered with success) and no chunk after it is sent.
C11_ChunkFailurePropagates ==
    /\ \A j \in 1..Len(hooklog) :
          /\ hooklog[j].payload.embeds = SubSeq(hk.embeds, hk.chunk_size * (j - 1) + 1,
                                                Min(hk.chunk_size * j, Len(hk.embeds)))
          /\ hooklog[j].status # "204" => j = Len(hooklog) /\ hk.st = "raised"
          /\ j < Len(hooklog) => hooklog[j].status = "204"
    /\ hk.st = "raised" /\ hooklog # <<>> => hooklog[Len(hooklog)].status # "204"

\* Of 23 cards in chunks of 10 the first chunk was sent, the call for the
\* second failed, and the third was never sent.
C11_Witness ==
    /\ hk.st = "raised"
    /\ hk.chunk_size = 10
    /\ Len(hk.embeds) = 23
    /\ Len(hooklog) = 2
    /\ hooklog[1].status = "204"
    /\ hooklog[2].status = "HTTPError"

\* Some chunk of the call would carry more cards than a webhook message may.
Oversized(frame) ==
    frame.chunk_size > MAX_EMBEDS_PER_WEBHOOK /\ Len(frame.embeds) > MAX_EMBEDS_PER_WEBHOOK

\* C12: send_webhook_chunked called with an empty URL, a chunk size of zero or
\* less, or cards and a chunk size that make an oversized chunk - whatever the
\* card list, the empty one included - makes no webhook call and ends by
\* raising, never by returning.
C12_FailsFastWithoutCall ==
    hk.st # "idle" /\ (~hk.url \/ hk.chunk_size <= 0 \/ Oversized(hk)) =>
        /\ hooklog = <<>>
        /\ hk.st # "returned"

\* C13: a chat call made while the endpoint address or the model identifier is
\* absent or empty makes no HTTP attempt, and the only way it ends is by raising.
C13_MissingConfigNoAttempt ==
    pc = "direct" /\ cpc \in {"called", "running", "returned", "raised"} /\ (~cfg.chat_url \/ ~cfg.model) =>
        /\ Attempts = <<>>
        /\ cpc \in {"called", "raised"}

\* With an endpoint address but no model identifier the call was entered and
\* raised without an HTTP attempt.
C13_Witness ==
    /\ pc = "direct"
    /\ cpc = "raised"
    /\ cfg.chat_url /\ ~cfg.model
    /\ Len(chatlog) = 1
    /\ Attempts = <<>>

\* The cards the tool invocations tcs stand for, for the email under triage.
ExpectedCards(tcs, email) ==
    LET accepted == AcceptedCalls(tcs)
    IN  [j \in 1..Len(accepted) |->
            build_email_embed(email.id, email.subject, Strip(DecodedSummary(accepted[j])))]

\* The first chat call of the check_email in progress timed out on its first
\* attempt and got a response on its second.
FirstCallRetried ==
    /\ Len(chatlog) >= 1
    /\ Len(chatlog[1]) = 2
    /\ chatlog[1][1].outcome = "ReadTimeout"
    /\ chatlog[1][2].outcome = "ok"

\* This step ends the check_email in progress (it returns or raises).
EmailEndsNow == Len(returned') = Len(returned) + 1

\* C14 (as amended): a read-timeout of the first attempt of the first model
\* call never ends the triage - the request is sent again; when the second
\* attempt succeeds, the cards held after the tool loop are those of that
\* response alone, and check_email ends as it would have without the timeout:
\* it returns exactly those cards after the second model call returned, or it
\* raises what the second model call raised, or it raised while decoding the
\* response's tool arguments.
C14_TimeoutThenSuccess ==
    [][ /\ cpc = "chat1" /\ attempt = 0 /\ EmailEndsNow
            => returned'[Len(returned')].st # "ReadTimeout"
        /\ cpc = "chat1" /\ attempt = 1 /\ cpc' = "chat2"
            => /\ FirstCallRetried'
               /\ cembeds' = ExpectedCards(conv'[3].tool_calls, messages[idx])
        /\ cpc = "chat1" /\ attempt = 1 /\ EmailEndsNow
            => /\ returned'[Len(returned')].chats = 1
               /\ returned'[Len(returned')].st \in Failures \cup {"RecursionError"}
        /\ cpc = "chat2" /\ FirstCallRetried /\ EmailEndsNow
            => LET r == returned'[Len(returned')]
               IN  /\ r.chats = 2
                   /\ \/ r.st = "ok" /\ r.cards = ExpectedCards(Proposed, messages[idx])
                      \/ r.st \in Failures /\ r.cards = <<>> ]_vars

\* After a read-timeout and a successful second attempt of the first model
\* call, check_email holds the card of that response and is in its second
\* model call.
C14_Witness ==
    /\ cpc = "chat2"
    /\ FirstCallRetried
    /\ chatlog[1][2].payload = chatlog[1][1].payload
    /\ Len(Proposed) = 1
    /\ cembeds = ExpectedCards(Proposed, messages[idx])
    /\ Len(cembeds) = 1

\* C14 as stated: when the first attempt of the first model call timed out
\* and its second attempt succeeded, the check_email that has come to its
\* second model call does not raise.
C14_AsStated ==
    [][ cpc = "chat2" /\ FirstCallRetried /\ EmailEndsNow
            => returned'[Len(returned')].st = "ok" ]_vars

\* The value of the call just made on the builder is empty or blank; for
\* any_of, no operand is non-blank.
BlankCall ==
    CASE builder.method = "any_of" -> StripAll(builder.value) = <<>>
      [] builder.method \in {"before:", "after:"} ->
            builder.value.t = "str" /\ Strip(builder.value.v) = <<>>
      [] OTHER -> Strip(builder.value) = <<>>

\* C15: every GmailQueryBuilder method that accepts a value signals an error
\* when the value is empty or blank and leaves the token sequence as it was
\* (any_of: unless at least one operand is non-blank).
C15_BlankValueRejected ==
    [][ builder.st = "new" /\ builder'.st # "new" /\ BlankCall'
            => builder'.st = "ValueError" /\ builder'.tokens = builder.tokens ]_vars

\* C16: text(s) emits s unchanged when s is non-blank with no whitespace and
\* no double quote, and s wrapped in double quotes when s contains whitespace
\* anywhere, leading and trailing included (here: and no double quote).
C16_TextTokenIsValueOrQuotedValue ==
    builder.method = "text" /\ Strip(builder.value) # <<>>
        /\ ~HasQuote(builder.value)
    => /\ builder.st = "ok"
       /\ builder.tokens[Len(builder.tokens)] =
            IF HasSpace(builder.value)
            THEN <<"\"">> \o builder.value \o <<"\"">>
            ELSE builder.value

RECURSIVE FirstData(_, _)
RECURSIVE FirstDataIn(_, _)
\* The data of the first part of the given MIME type carrying data that the
\* depth-first traversal of the parts meets, "" when there is none.
FirstDataIn(parts, mime_type) ==
    IF parts = <<>> THEN ""
    ELSE LET d == FirstData(Head(parts), mime_type)
         IN  IF d # "" THEN d ELSE FirstDataIn(Tail(parts), mime_type)

FirstData(part, mime_type) ==
    IF part.data # "" /\ part.mimeType = mime_type THEN part.data
    ELSE FirstDataIn(part.parts, mime_type)

\* C17: plain_body (resp. html_body) returns the decoded text of the first
\* text/plain (resp. text/html) part carrying data that the depth-first
\* traversal meets: a later part of the same type never replaces an earlier one.
C17_FirstPartWins ==
    /\ gmsg.st = "plain_body" =>
          gmsg.text = _decode_base64url(FirstData(gmsg.payload, "text/plain"))
    /\ gmsg.st = "html_body" =>
          gmsg.text = _decode_base64url(FirstData(gmsg.payload, "text/html"))

RECURSIVE HasEmptyField(_)
\* Some field of the value, at any nesting depth, holds None, an empty list
\* or an empty mapping.
HasEmptyField(value) ==
    CASE value.t = "obj" ->
            \E i \in 1..Len(value.v) :
                \/ value.v[i].v \in {PyNone, PyList, EmptyDict}
                \/ HasEmptyField(value.v[i].v)
      [] value.t = "list" -> \E i \in 1..Len(value.v) : HasEmptyField(value.v[i])
      [] OTHER -> FALSE

\* C18: the payload Root.to_payload returns holds, at every nesting depth, no
\* field whose value is null, an empty list or an empty mapping.
C18_NoEmptyFieldInPayload ==
    root.st = "returned" => ~HasEmptyField(root.payload)

\* get_messages ends now: the fetch loop is over and the window is applied.
GetMessagesEnds == pc = "get" /\ ridx > Len(refs) /\ pc' # "get"

\* C19: for a non-negative window get_messages returns exactly the fetched
\* messages, in fetch order, whose receipt time is present and >= now - window;
\* with no window it returns every fetched message.
C19_WindowKeepsRecentInOrder ==
    [][ GetMessagesEnds =>
          /\ ~time_delta.given => pc' = "triage" /\ messages' = messages
          /\ time_delta.given /\ time_delta.secs >= 0 =>
                /\ pc' = "triage"
                /\ messages' = SelectSeq(messages,
                                   LAMBDA m : m.recv.known /\ m.recv.at >= Now - time_delta.secs) ]_vars

\* get_messages has returned the second fetched message without the first.
C19_Witness ==
    /\ pc = "triage"
    /\ calls.get = 2
    /\ Len(messages) = 1
    /\ messages[1].id = 2
    /\ messages[1].recv.at = Now

\* C20: when the model endpoint, the model identifier or the webhook URL is
\* not configured, run aborts before any per-email work: check_email is
\* entered for no email and no HTTP attempt of a model call is made.
C20_MissingConfigAbortsBeforeTriage ==
    ~cfg.chat_url \/ ~cfg.model \/ ~cfg.webhook_url =>
        /\ cpc = "idle"
        /\ returned = <<>>
        /\ Attempts = <<>>

\* The token the call just made on the builder appended.
LastToken == builder.tokens[Len(builder.tokens)]

\* C21: for every non-blank expression, exclude appends a token that starts
\* with exactly one negation marker: with one marker, and never with two.
C21_ExcludeNegatesExactlyOnce ==
    builder.method = "exclude" /\ Strip(builder.value) # <<>> =>
        /\ builder.st = "ok"
        /\ LastToken[1] = "-"
        /\ ~(Len(LastToken) >= 2 /\ LastToken[2] = "-")

\* The entry of the email whose check_email ends in this step.
Ended == returned'[Len(returned')]

\* A model call of check_email fails and check_email ends: it raises once
\* and the batch gets no card of that email.
FailedTriageStep ==
    cpc \in {"chat1", "chat2"} /\ EmailEndsNow /\ Ended.st \in Failures =>
        /\ Len(returned') = Len(returned) + 1
        /\ Ended.cards = <<>>
        /\ embeds' = embeds
        /\ \A i \in 1..Len(embeds') : embeds'[i].url[2] # Ended.id

\* C22: triage of one email is all-or-nothing: when a model call of
\* check_email fails, the second one after cards were accepted included,
\* check_email raises as a single failure and that email contributes no card
\* to the run's batch.
C22_FailedTriageContributesNothing == [][FailedTriageStep]_vars

\* The second model call failed after a card had been accepted, and the batch
\* holds nothing.
C22_Witness ==
    /\ Len(returned) = 1
    /\ returned[1].st \in Failures
    /\ returned[1].chats = 2
    /\ returned[1].held = 1
    /\ embeds = <<>>

\* C23: the conversation of one check_email is append-only: what the second
\* model call sends is the system and user messages the first call sent, then
\* the assistant's response message (also when it proposes no tool call), then
\* one tool-result message per produced card and none for a skipped invocation.
C23_ConversationAppendOnly ==
    cpc = "chat2" =>
        /\ SubSeq(conv, 1, 2) = <<SystemMsg, UserMsg(messages[idx])>>
        /\ \A k \in 1..Len(chatlog[1]) : chatlog[1][k].payload.messages = SubSeq(conv, 1, 2)
        /\ Len(conv) >= 3
        /\ conv[3] \in Responses(MaxToolCalls)
        /\ Len(conv) = 3 + Len(cembeds)
        /\ Len(conv) = 3 + Len(AcceptedCalls(Proposed))
        /\ \A j \in 4..Len(conv) : conv[j] = ToolMsg("notify")
        /\ payload.messages = conv
        /\ \A k \in 1..Len(chatlog[2]) : chatlog[2][k].payload.messages = conv

\* The response proposed no tool call and was appended all the same; the
\* second call has sent the three messages once.
C23_Witness ==
    /\ cpc = "chat2"
    /\ conv = <<SystemMsg, UserMsg(messages[idx]), AssistantMsg(<<>>)>>
    /\ Len(chatlog[2]) = 1
    /\ chatlog[2][1].payload.messages = conv

\* C24: run triages the emails one after another in the order of the mailbox
\* query - a model call is made for email idx only, after the triage of every
\* earlier email has ended - and the batch, also when it is handed to the
\* dispatch, is the concatenation in that order of the card lists of the
\* emails whose triage returned.
C24_SequentialTriageInOrder ==
    /\ pc = "triage" => Len(returned) = idx - 1
    /\ \A i \in 1..Len(returned) : i <= Len(messages) /\ returned[i].id = messages[i].id
    /\ cpc # "idle" =>
          /\ pc = "triage" /\ idx <= Len(messages)
          /\ \A c \in 1..Len(chatlog) : \A k \in 1..Len(chatlog[c]) :
                chatlog[c][k].payload.messages[2] = UserMsg(messages[idx])
    /\ embeds = CardsOfReturned(returned)
    /\ pc = "dispatch" => Len(returned) = Len(messages) /\ hk.embeds = embeds

\* Two emails each gave a card; the batch handed to the dispatch holds the
\* card of the first email before the card of the second.
C24_Witness ==
    /\ pc = "dispatch"
    /\ Len(returned) = 2
    /\ Len(returned[1].cards) = 1 /\ Len(returned[2].cards) = 1
    /\ hk.embeds = returned[1].cards \o returned[2].cards
    /\ hk.embeds[1].url[2] = messages[1].id
    /\ hk.embeds[2].url[2] = messages[2].id
    /\ messages[1].id # messages[2].id

\* C25: over any sequence of plain_body, html_body and body calls on one
\* GmailMessage the part tree is traversed at most once, on the first call and
\* also when no text part is found, and every call returns what that
\* traversal computed.
C25_TraversalOnceThenCached ==
    /\ gmsg.walks <= 1
    /\ gmsg.st \in {"plain_body", "html_body", "body"} =>
          /\ gmsg.walks = 1
          /\ gmsg.cache = Cache(walk(gmsg.payload, NothingFound))
    /\ gmsg.st = "plain_body" => gmsg.text = gmsg.cache.found["text/plain"]
    /\ gmsg.st = "html_body" => gmsg.text = gmsg.cache.found["text/html"]
    /\ gmsg.st = "body" =>
          gmsg.text \in {gmsg.cache.found["text/plain"], gmsg.cache.found["text/html"], snippet, ""}

\* Three calls were made on a message with no text part: one traversal.
C25_Witness ==
    /\ gmsg.st = "html_body"
    /\ gmsg.left = MaxBodyCalls - 3
    /\ gmsg.cache = Cache(NothingFound)
    /\ gmsg.walks = 1
    /\ gmsg.text = ""

RECURSIVE SentCards(_)
\* The cards carried by the successful webhook calls, in call order.
SentCards(log) ==
    IF log = <<>> THEN <<>>
    ELSE SentCards(SubSeq(log, 1, Len(log) - 1))
            \o (IF log[Len(log)].status = "204" THEN log[Len(log)].payload.embeds ELSE <<>>)

\* C26: at any point of send_webhook_chunked, and after it ended by returning
\* or by raising, the cards carried by the successful webhook calls, in call
\* order, are a prefix of the input card list (none twice, skipped or
\* reordered), and the whole list once the call has returned.
C26_SentCardsArePrefix ==
    hk.st # "idle" =>
        /\ Len(SentCards(hooklog)) <= Len(hk.embeds)
        /\ SentCards(hooklog) = SubSeq(hk.embeds, 1, Len(SentCards(hooklog)))
        /\ hk.st = "returned" => SentCards(hooklog) = hk.embeds

\* Of seven cards in chunks of three, two chunks were sent and the call for
\* the third failed: the first six cards were sent, in order.
C26_Witness ==
    /\ hk.st = "raised"
    /\ hk.chunk_size = 3
    /\ Len(hk.embeds) = 7
    /\ Len(hooklog) = 3
    /\ hooklog[3].status # "204"
    /\ SentCards(hooklog) = SubSeq(hk.embeds, 1, 6)

\* The last HTTP attempt of the c-th chat call of the email in triage.
LastAttempt(c) == chatlog[c][Len(chatlog[c])]

\* C27: for an email with a message id check_email makes at most two chat
\* calls, the second only after the first returned a response; when it
\* returns it has made exactly two, also when the first response proposed no
\* tool invocation or none was accepted.
C27_TwoChatCallsPerTriage ==
    /\ Len(chatlog) <= 2
    /\ Len(chatlog) = 2 => chatlog[1] # <<>> /\ LastAttempt(1).outcome = "ok"
    /\ cpc = "chat2" <=> Len(chatlog) = 2
    /\ \A i \in 1..Len(returned) :
          returned[i].id # 0 =>
              /\ returned[i].chats <= 2
              /\ returned[i].st = "ok" => returned[i].chats = 2

\* The first response proposed no tool invocation; check_email returned no
\* card after two chat calls.
C27_Witness ==
    /\ Len(returned) = 1
    /\ returned[1].id # 0
    /\ returned[1].st = "ok"
    /\ returned[1].cards = <<>>
    /\ returned[1].chats = 2
    /\ calls.tcs = 0

\* The value the arguments of an invocation hold under "summary".
SummaryValue(tc) == DictGet(parse_tool_args(tc.arguments).val.v, KeySummary, PyStr(<<>>))

\* C28: every card check_email holds describes the trimmed summary text the
\* model supplied in the corresponding notify invocation and links the email's
\* message id; a summary that is not text gives no card with a description
\* the model did not supply.
C28_CardDescribesSuppliedSummary ==
    cpc = "chat2" =>
        \A j \in 1..Len(cembeds) :
            LET tc == AcceptedCalls(Proposed)[j]
            IN  /\ cembeds[j].url = <<"https://mail.google.com/mail/u/0/#inbox/", messages[idx].id>>
                /\ SummaryValue(tc).t = "str"
                /\ cembeds[j].description = Strip(SummaryValue(tc).v)

=============================================================================
